---- MODULE Spec2Model ----
(***************************************************************************)
(* BleCube (src/src/ble_cube.rs): an append-only store of BLE observations *)
(* with a MAC index (HashMap), an RSSI and a timestamp index (BTreeMap)    *)
(* and a spatial index (R-tree).  One action per public method; a query    *)
(* action records what it was called with and what it returned in `last`.  *)
(*                                                                         *)
(* Representation.                                                         *)
(*   rssi       i8, an integer in -128..127; arithmetic keeps the width.   *)
(*   mac        [u8; 6], a 6-tuple of bytes.                               *)
(*   timestamp  i64, four 16-bit limbs <<l3, l2, l1, l0>>, most            *)
(*              significant first, l3 signed (-32768..32767).              *)
(*   f64        a record [nan, sign, man, exp]: sign * man * 2^exp with a  *)
(*              mantissa of at most 53 bits; +, -, *, /, sqrt round to the *)
(*              nearest value, ties to even, as IEEE 754 does.             *)
(*   lat, lon   f64 degrees; the state and the arguments hold the number u *)
(*              of 1/10000 degree, the f64 is Coord(u) = u / 10000.0.      *)
(*   radius_m   f64 metres; the arguments hold a whole number of metres r, *)
(*              the f64 is f64_from(r).                                    *)
(*   &BleObservation   the record's position in `records` (its address).   *)
(* A record identifier is 0-based as in the source; records[id + 1] is the *)
(* record with identifier id.                                              *)
(***************************************************************************)
EXTENDS Integers, Sequences, FiniteSets, Bags, TLC

VARIABLES
    records,          \* Vec<BleObservation>
    mac_index,        \* HashMap<[u8; 6], Vec<usize>>
    rssi_index,       \* BTreeMap<i8, Vec<usize>>
    time_index,       \* BTreeMap<i64, Vec<usize>>
    geo_index,        \* RTree<GeoPoint>: the root node's children, in order
    overflow_checks,  \* the build: TRUE = overflow checks on (debug profile)
    inserted,         \* history: the observations passed to insert, in order
    last              \* the latest call: [op, args, result]

vars == <<records, mac_index, rssi_index, time_index, geo_index,
          overflow_checks, inserted, last>>

cube == <<records, mac_index, rssi_index, time_index, geo_index>>

\* Bound of the model: the number of insert calls in a run.
MaxRecords == 2

----------------------------------------------------------------------------
(* Machine integers *)

I8_MIN == -128
I8_MAX == 127

\* i8 addition: the wrapped sum and whether it left the i8 range.
AddI8(a, b) ==
    [overflow |-> (a + b > I8_MAX) \/ (a + b < I8_MIN),
     value    |-> ((a + b + 128) % 256) - 128]

LimbBase == 2^16

I64(l3, l2, l1, l0) == <<l3, l2, l1, l0>>

I64_MIN == I64(-32768, 0, 0, 0)
I64_MAX == I64(32767, 65535, 65535, 65535)
I64_ZERO == I64(0, 0, 0, 0)

\* a < b on i64 (limbs compared from the most significant one)
LtI64(a, b) ==
    \E i \in 1..4 : a[i] < b[i] /\ \A j \in 1..(i - 1) : a[j] = b[j]

LeqI64(a, b) == a = b \/ LtI64(a, b)

\* a + 1 on i64: the wrapped sum and whether it left the i64 range.
IncI64(a) ==
    LET c0 == IF a[4] = LimbBase - 1 THEN 1 ELSE 0
        c1 == IF c0 = 1 /\ a[3] = LimbBase - 1 THEN 1 ELSE 0
        c2 == IF c1 = 1 /\ a[2] = LimbBase - 1 THEN 1 ELSE 0
        ov == c2 = 1 /\ a[1] = 32767
    IN  [overflow |-> ov,
         value    |-> I64(IF ov THEN -32768 ELSE a[1] + c2,
                          (a[2] + c1) % LimbBase,
                          (a[3] + c0) % LimbBase,
                          (a[4] + 1) % LimbBase)]

\* Ord for the key types in use: a < b on "i64" limbs, on "i8" and on
\* "usize".
KeyLt(ord, a, b) == IF ord = "i64" THEN LtI64(a, b) ELSE a < b

\* [u8; 6] ordering (derived Ord on arrays): lexicographic from byte 0.
MacLess(a, b) ==
    \E i \in 1..6 : a[i] < b[i] /\ \A j \in 1..(i - 1) : a[j] = b[j]

----------------------------------------------------------------------------
(* Results *)

Ok(v) == [panic |-> FALSE, value |-> v]
Panic == [panic |-> TRUE, value |-> <<>>]

None == [some |-> FALSE]
Some(v) == [some |-> TRUE, value |-> v]

RECURSIVE Flatten(_)
Flatten(ss) == IF ss = <<>> THEN <<>> ELSE Head(ss) \o Flatten(Tail(ss))

\* The keys in the finite set S as a sequence ascending in their order.
Ascending(S, ord) ==
    [i \in 1..Cardinality(S) |->
        CHOOSE k \in S : Cardinality({j \in S : ~KeyLt(ord, k, j)}) = i]

Range(s) == {s[i] : i \in DOMAIN s}

\* ids.iter().filter_map(|&id| self.records.get(id)): the references to the
\* records the identifiers name, skipping identifiers out of bounds.
Resolve(ids) == SelectSeq(ids, LAMBDA id : id < Len(records))

\* The observations a sequence of references points to.
Deref(refs) == [i \in 1..Len(refs) |-> records[refs[i] + 1]]

Returned(r) == IF r.panic THEN Panic ELSE Ok(Deref(r.value))

----------------------------------------------------------------------------
(* Inputs: the observations a run may insert and the arguments it may pass *)

MacA == <<170, 187, 204, 221, 238, 255>>
MacB == <<0, 0, 0, 0, 0, 2>>
MacC == <<1, 0, 0, 0, 0, 0>>
MacUnknown == <<17, 34, 51, 68, 85, 102>>

T1700 == I64(0, 0, 25939, 61696)    \* 1700000000

SF == <<377749, -1224194>>          \* (37.7749, -122.4194)
Oakland == <<378044, -1222712>>     \* (37.8044, -122.2712)
North == <<378749, -1224194>>       \* (37.8749, -122.4194)

Obs(r, m, t, p) ==
    [rssi |-> r, mac |-> m, timestamp |-> t, lat |-> p[1], lon |-> p[2]]

Observations ==
    { Obs(-65, MacA, T1700, SF),
      Obs(-70, MacB, I64_ZERO, Oakland),
      Obs(127, MacC, I64_MAX, North),
      Obs(-65, MacA, I64_MIN, SF),
      Obs(I8_MIN, MacB, T1700, Oakland) }

IdArgs == 0..MaxRecords
MacArgs == {MacA, MacB, MacC, MacUnknown}
RssiArgs == {I8_MIN, -70, -65, I8_MAX}
RssiRanges == { <<-80, -60>>, <<I8_MIN, I8_MAX>>, <<-65, -65>>,
                <<-70, I8_MAX>>, <<-60, -80>> }
TimeArgs == {I64_MIN, I64_ZERO, T1700, I64_MAX}
TimeRanges == { <<I64_MIN, I64_MAX>>, <<I64_ZERO, T1700>>,
                <<T1700, T1700>>, <<T1700, I64_ZERO>> }
MultiMacs == {None, Some(MacA)}
MultiRssi == {None, Some(<<-80, -60>>), Some(<<-60, -80>>)}
MultiTime == {None, Some(<<I64_ZERO, I64_MAX>>), Some(<<T1700, I64_ZERO>>)}

----------------------------------------------------------------------------
(* Containers *)

EntryPushReplace(index, key, id) == (key :> <<id>>) @@ index

EntryPushFront(index, key, id) ==
    IF key \in DOMAIN index
    THEN [index EXCEPT ![key] = <<id>> \o @]
    ELSE (key :> <<id>>) @@ index

\* map.entry(key).or_insert_with(Vec::new).push(id)
EntryPush(index, key, id) ==
    IF key \in DOMAIN index
    THEN [index EXCEPT ![key] = Append(@, id)]
    ELSE (key :> <<id>>) @@ index

\* map.get(&key).map(..).unwrap_or_default(): the bucket, or empty
Bucket(index, key) == IF key \in DOMAIN index THEN index[key] ELSE <<>>

\* BTreeMap::range(lo..=hi) (hi_incl) or range(lo..hi), flat-mapped over
\* the buckets in ascending key order.  A map that never held an entry has
\* no root and yields nothing; otherwise the search panics when lo > hi
\* ("range start is greater than range end in BTreeMap").
BTreeRange(index, lo, hi, hi_incl, ord) ==
    IF DOMAIN index = {} THEN Ok(<<>>)
    ELSE IF KeyLt(ord, hi, lo) THEN Panic
    ELSE LET inside == {k \in DOMAIN index :
                           /\ ~KeyLt(ord, k, lo)
                           /\ KeyLt(ord, k, hi) \/ (hi_incl /\ k = hi)}
             keys == Ascending(inside, ord)
         IN  Ok(Flatten([i \in 1..Len(keys) |-> index[keys[i]]]))

\* range(..).flat_map(|(_, ids)| ids.iter().filter_map(get)).collect()
Collect(r) == IF r.panic THEN Panic ELSE Ok(Resolve(r.value))

----------------------------------------------------------------------------
(* Record store and flat indices: the methods as functions of the state.   *)
(* A sequence-valued query yields Ok(references) or Panic.                 *)

get_one_based(record_id) ==
    IF 1 <= record_id /\ record_id <= Len(records)
    THEN Some(records[record_id]) ELSE None

get(record_id) ==
    IF record_id < Len(records) THEN Some(records[record_id + 1]) ELSE None

len == Len(records)

is_empty == Len(records) = 0

query_mac(mac) == Ok(Resolve(Bucket(mac_index, mac)))

\* macs.sort() on the keys, collected in the map's iteration order `keys`
RECURSIVE SortMacs(_)
SortMacs(macs) ==
    IF macs = <<>> THEN <<>>
    ELSE LET rest == SortMacs(Tail(macs))
             x == Head(macs)
             lower == SelectSeq(rest, LAMBDA m : MacLess(m, x))
             upper == SelectSeq(rest, LAMBDA m : ~MacLess(m, x))
         IN  lower \o <<x>> \o upper

get_all_macs_unsorted(keys) == keys

get_all_macs(keys) == SortMacs(keys)

\* HashMap::keys(): every key once, in an order the hasher decides
KeyOrders(index) ==
    {ks \in [1..Cardinality(DOMAIN index) -> DOMAIN index] :
        Range(ks) = DOMAIN index}

query_rssi(rssi) == Ok(Resolve(Bucket(rssi_index, rssi)))

query_rssi_range_half_open(min, max) ==
    Collect(BTreeRange(rssi_index, min, max, FALSE, "i8"))

query_rssi_range(min, max) ==
    Collect(BTreeRange(rssi_index, min, max, TRUE, "i8"))

query_rssi_gt(threshold) ==
    LET start == AddI8(threshold, 1)
    IN  IF start.overflow /\ overflow_checks THEN Panic
        ELSE Collect(BTreeRange(rssi_index, start.value, I8_MAX, TRUE, "i8"))

query_rssi_gte(threshold) ==
    Collect(BTreeRange(rssi_index, threshold, I8_MAX, TRUE, "i8"))

query_rssi_lt(threshold) ==
    Collect(BTreeRange(rssi_index, I8_MIN, threshold, FALSE, "i8"))

query_rssi_lte(threshold) ==
    Collect(BTreeRange(rssi_index, I8_MIN, threshold, TRUE, "i8"))

query_timestamp(timestamp) == Ok(Resolve(Bucket(time_index, timestamp)))

query_time_range(start, end) ==
    Collect(BTreeRange(time_index, start, end, TRUE, "i64"))

query_time_after(timestamp) ==
    LET start == IncI64(timestamp)
    IN  IF start.overflow /\ overflow_checks THEN Panic
        ELSE Collect(BTreeRange(time_index, start.value, I64_MAX, TRUE, "i64"))

query_time_before(timestamp) ==
    Collect(BTreeRange(time_index, I64_MIN, timestamp, FALSE, "i64"))

----------------------------------------------------------------------------
(* Natural numbers of any size.  A number is the sequence of its digits in
   base 2^15, least significant first, without leading zero digits; zero
   is <<>>.  The arithmetic of f64 needs 53-bit mantissas and their
   products.  The operations work on all digits at once where they can,
   and a result that is used more than once is passed as an argument, so
   that it is computed once. *)

LimbBits == 15
Base == 2^LimbBits

Limb(a, i) == IF 1 <= i /\ i <= Len(a) THEN a[i] ELSE 0

\* the function f on 1..n as a sequence
Digits(f) == SubSeq(f, 1, Len(f))

\* a without its leading zero digits
Trim(a) ==
    SubSeq(a, 1, CHOOSE n \in 0..Len(a) :
                     (n = 0 \/ a[n] # 0) /\ \A i \in (n + 1)..Len(a) : a[i] = 0)

\* 0 <= n < 2^31
BigOf(n) == Trim(<<n % Base, (n \div Base) % Base, n \div (Base * Base)>>)

\* the number of bits of a: those of the digits below the top one, and the
\* bits of the top digit
BigBits(a) ==
    IF a = <<>> THEN 0
    ELSE LimbBits * (Len(a) - 1)
           + CHOOSE k \in 1..LimbBits : a[Len(a)] < 2^k /\ 2^(k - 1) <= a[Len(a)]

\* bit k of a is set
TestBit(a, k) == (Limb(a, (k \div LimbBits) + 1) \div 2^(k % LimbBits)) % 2 = 1

\* -1, 0, 1 as a < b, a = b, a > b
BigCmp(a, b) ==
    IF a = b THEN 0
    ELSE IF Len(a) # Len(b) THEN (IF Len(a) < Len(b) THEN -1 ELSE 1)
    ELSE IF \E i \in DOMAIN a : a[i] < b[i] /\ \A j \in (i + 1)..Len(a) : a[j] = b[j]
         THEN -1 ELSE 1

\* the digits of the number with s[i] < 2 * Base at digit i, less the carry
\* out of the last digit: digit i takes a carry when a lower digit
\* overflows and the digits between pass the carry on
Settled(s) ==
    Trim(IF \A i \in DOMAIN s : s[i] < Base THEN s
         ELSE [i \in DOMAIN s |->
                  (s[i] + IF \E j \in 1..(i - 1) :
                                 /\ s[j] >= Base
                                 /\ \A k \in (j + 1)..(i - 1) : s[k] = Base - 1
                          THEN 1 ELSE 0) % Base])

\* the number with the columns c: c[k] < 2^30 counts Base^(k - 1)
Carried(c) ==
    Settled(Digits([i \in 1..(Len(c) + 1) |->
                       (Limb(c, i) % Base) + (Limb(c, i - 1) \div Base)]))

BigAdd(a, b) ==
    IF a = <<>> THEN b
    ELSE IF b = <<>> THEN a
    ELSE Settled(Digits([i \in 1..((IF Len(a) >= Len(b) THEN Len(a) ELSE Len(b)) + 1) |->
                            Limb(a, i) + Limb(b, i)]))

\* a - b for a >= b: a plus the complement of b plus 1, less the carry out
BigSub(a, b) ==
    IF b = <<>> THEN a
    ELSE Settled(Digits([i \in 1..Len(a) |->
                            a[i] + (Base - 1 - Limb(b, i)) + IF i = 1 THEN 1 ELSE 0]))

\* column k collects the low halves of the digit products of weight k and
\* the high halves of those of weight k - 1; their sum is the size of the
\* bag with one copy more of i than the i-th of them, less their number
BigMul(a, b) ==
    IF a = <<>> \/ b = <<>> THEN <<>>
    ELSE Carried(Digits([k \in 1..(Len(a) + Len(b)) |->
             BagCardinality([i \in 1..Len(a) |->
                 ((a[i] * Limb(b, k + 1 - i)) % Base)
                   + ((a[i] * Limb(b, k - i)) \div Base) + 1]) - Len(a)]))

\* a * 2^bits
BigShl(a, bits) ==
    LET w == bits \div LimbBits
        s == bits % LimbBits
    IN  IF a = <<>> THEN a ELSE
        Trim([i \in 1..(Len(a) + w + 1) |->
                 ((Limb(a, i - w) * 2^s) % Base)
                   + (Limb(a, i - w - 1) \div 2^(LimbBits - s))])

\* floor(a / 2^bits)
BigShr(a, bits) ==
    LET w == bits \div LimbBits
        s == bits % LimbBits
    IN  IF a = <<>> THEN a ELSE
        Trim([i \in 1..(Len(a) - w) |->
                 (Limb(a, i + w) \div 2^s)
                   + (Limb(a, i + w + 1) % 2^s) * 2^(LimbBits - s)])

RECURSIVE DivFrom(_, _, _, _, _, _)
RECURSIVE DivEstimate(_, _, _, _, _, _)
RECURSIVE DivDigit(_, _, _, _, _, _, _, _)
(* Long division of a by b, b with the top bit of its top digit set, both
   shifted left by s bits.  The digits of a above digit i are done: q holds
   their quotient digits and rem < b is their remainder. *)
DivFrom(a, b, s, i, q, rem) ==
    IF i = 0 THEN [q |-> Trim(q), r |-> BigShr(rem, s)]
    ELSE DivEstimate(a, b, s, i, q, Trim(<<a[i]>> \o rem))

\* digit a[i] is brought down to r; the quotient of the leading digits of
\* r and b is the quotient digit or up to 2 above it
DivEstimate(a, b, s, i, q, r) ==
    LET n   == Len(b)
        est == (Limb(r, n + 1) * Base + Limb(r, n)) \div b[n]
        d   == IF est < Base THEN est ELSE Base - 1
    IN  DivDigit(a, b, s, i, q, r, d, BigMul(b, <<d>>))

\* p = b * d, and d is not below the quotient digit
DivDigit(a, b, s, i, q, r, d, p) ==
    IF BigCmp(p, r) <= 0 THEN DivFrom(a, b, s, i - 1, <<d>> \o q, BigSub(r, p))
    ELSE DivDigit(a, b, s, i, q, r, d - 1, BigSub(p, b))

LongDiv(a, b, s) ==
    IF Len(a) < Len(b) THEN [q |-> <<>>, r |-> BigShr(a, s)]
    ELSE DivFrom(a, b, s, Len(a) - Len(b) + 1, <<>>,
                 SubSeq(a, Len(a) - Len(b) + 2, Len(a)))

\* quotient q and remainder r of a by b # 0
BigDivMod(a, b) ==
    LET s == LimbBits * Len(b) - BigBits(b)
    IN  LongDiv(BigShl(a, s), BigShl(b, s), s)

RECURSIVE BigSqrtFrom(_, _, _)
\* Newton's iteration for the root of n, downwards from x above the root:
\* prev is the value before x (none at the start), and the iteration ends
\* at the first value that is not below the one before it
BigSqrtFrom(n, prev, x) ==
    IF prev = <<>> \/ BigCmp(x, prev) < 0
    THEN BigSqrtFrom(n, x, BigShr(BigAdd(x, BigDivMod(n, x).q), 1))
    ELSE [q |-> prev, r |-> BigSub(n, BigMul(prev, prev))]

RECURSIVE IntSqrtFrom(_, _)
\* the same for 0 < n < 2^30
IntSqrtFrom(n, x) ==
    LET y == (x + n \div x) \div 2
    IN  IF y < x THEN IntSqrtFrom(n, y) ELSE x

\* q = floor(sqrt(n)) and r = n - q^2; the iteration starts above the root
\* of the leading 30 bits of n
BigSqrt(n) ==
    IF n = <<>> THEN [q |-> <<>>, r |-> <<>>]
    ELSE LET cut  == IF BigBits(n) <= 30 THEN 0 ELSE 2 * ((BigBits(n) - 29) \div 2)
             top  == BigShr(n, cut)
             root == IntSqrtFrom(Limb(top, 1) + Limb(top, 2) * Base, Base)
         IN  BigSqrtFrom(n, <<>>, BigShl(BigOf(root + 1), cut \div 2))

----------------------------------------------------------------------------
(* f64.  A value other than NaN is sign * man * 2^exp with man = 0 or
   2^52 <= man < 2^53.  The finite values are the multiples of 2^MinExp
   below 2^1024: a value below 2^-1022 has exp below MinExp and as many
   low bits of man clear.  The infinite values are held as
   sign * 2^1024, which is above every finite value as they are.  +, -,
   *, / and sqrt round the exact result to the nearest value, ties to the
   even mantissa, as IEEE 754 prescribes, to an infinite value from 2^1024
   on, and they treat the infinite operands and the zeros as it does. *)

Precision == 53
MinExp == -1074
MaxExp == 971

F64(sign, man, exp) == [nan |-> FALSE, sign |-> sign, man |-> man, exp |-> exp]
NaN == [nan |-> TRUE, sign |-> 1, man |-> <<>>, exp |-> 0]
Zero == F64(1, <<>>, 0)

\* f64::INFINITY and f64::NEG_INFINITY: x is infinite when x.exp > MaxExp
Infinite(sign) == F64(sign, <<0, 0, 0, 128>>, MaxExp + 1)

\* sign * q * 2^e for q of 54 bits at most that has been rounded
Packed(sign, q, e) ==
    LET s == Precision - BigBits(q)
    IN  IF q = <<>> THEN F64(sign, <<>>, 0)
        ELSE IF e - s > MaxExp THEN Infinite(sign)
        ELSE F64(sign, IF s < 0 THEN BigShr(q, -s) ELSE BigShl(q, s), e - s)

\* sign * M * 2^e, with something more below M when sticky, rounded: M
\* loses its lowest d bits, those beyond 53 bits and those below 2^MinExp,
\* and the rest goes up when the highest bit lost is set and what is lost
\* is above one half, or is one half and the rest is odd
Round(sign, M, e, sticky) ==
    IF M = <<>> THEN Zero
    ELSE LET d  == IF BigBits(M) - Precision > MinExp - e
                   THEN BigBits(M) - Precision ELSE MinExp - e
             up == /\ TestBit(M, d - 1)
                   /\ (sticky \/ TestBit(M, d) \/ \E k \in 0..(d - 2) : TestBit(M, k))
         IN  Packed(sign,
                    IF d <= 0 THEN M
                    ELSE BigAdd(BigShr(M, d), IF up THEN <<1>> ELSE <<>>),
                    IF d <= 0 THEN e ELSE e + d)

\* the rounded quotient or root res.q with the remainder res.r
RoundResult(sign, res, e) == Round(sign, res.q, e, res.r # <<>>)

\* an integer as f64 (|n| < 2^31: exact)
f64_from(n) == Round(IF n < 0 THEN -1 ELSE 1, BigOf(IF n < 0 THEN -n ELSE n), 0, FALSE)

\* sign * (a + b) * 2^e when the signs are the same, sign * (a - b) * 2^e
\* when they are not
Combined(sign, same, a, b, e) ==
    LET ge == BigCmp(a, b) >= 0
    IN  Round(IF same \/ ge THEN sign ELSE -sign,
              IF same THEN BigAdd(a, b)
              ELSE IF ge THEN BigSub(a, b) ELSE BigSub(b, a),
              e, FALSE)

\* x + y: NaN for the infinite values of opposite signs, 0.0 for the zeros
\* of opposite signs
f64_add(x, y) ==
    IF x.nan \/ y.nan THEN NaN
    ELSE IF x.exp > MaxExp
    THEN (IF y.exp > MaxExp /\ y.sign # x.sign THEN NaN ELSE x)
    ELSE IF y.exp > MaxExp THEN y
    ELSE IF x.man = <<>> THEN (IF y.man = <<>> /\ y.sign # x.sign THEN Zero ELSE y)
    ELSE IF y.man = <<>> THEN x
    ELSE LET hi == IF x.exp >= y.exp THEN x ELSE y
             lo == IF x.exp >= y.exp THEN y ELSE x
         IN  IF hi.exp - lo.exp > 64 THEN hi
             ELSE Combined(hi.sign, hi.sign = lo.sign,
                           BigShl(hi.man, hi.exp - lo.exp), lo.man, lo.exp)

f64_sub(x, y) == f64_add(x, IF y.nan THEN y ELSE [y EXCEPT !.sign = -y.sign])

\* x * y: NaN for an infinite value times zero
f64_mul(x, y) ==
    IF x.nan \/ y.nan THEN NaN
    ELSE IF x.exp > MaxExp \/ y.exp > MaxExp
    THEN (IF x.man = <<>> \/ y.man = <<>> THEN NaN ELSE Infinite(x.sign * y.sign))
    ELSE IF x.man = <<>> \/ y.man = <<>> THEN F64(x.sign * y.sign, <<>>, 0)
    ELSE Round(x.sign * y.sign, BigMul(x.man, y.man), x.exp + y.exp, FALSE)

\* x / y: NaN for zero by zero and for infinite by infinite
f64_div(x, y) ==
    IF x.nan \/ y.nan THEN NaN
    ELSE IF x.exp > MaxExp \/ y.man = <<>>
    THEN (IF y.exp > MaxExp \/ x.man = <<>> THEN NaN ELSE Infinite(x.sign * y.sign))
    ELSE IF y.exp > MaxExp \/ x.man = <<>> THEN F64(x.sign * y.sign, <<>>, 0)
    ELSE RoundResult(x.sign * y.sign, BigDivMod(BigShl(x.man, 56), y.man),
                     x.exp - y.exp - 56)

sqrt(x) ==
    IF x.nan \/ (x.sign < 0 /\ x.man # <<>>) THEN NaN
    ELSE IF x.man = <<>> \/ x.exp > MaxExp THEN x
    ELSE LET k == 56 + ((x.exp - 56) % 2)
         IN  RoundResult(1, BigSqrt(BigShl(x.man, k)), (x.exp - k) \div 2)

\* -1, 0, 1 as x < y, x = y, x > y, for x and y not NaN
f64_cmp(x, y) ==
    LET sx == IF x.man = <<>> THEN 0 ELSE x.sign
        sy == IF y.man = <<>> THEN 0 ELSE y.sign
    IN  IF sx # sy THEN (IF sx < sy THEN -1 ELSE 1)
        ELSE IF sx = 0 THEN 0
        ELSE IF x.exp # y.exp THEN (IF x.exp < y.exp THEN -sx ELSE sx)
        ELSE sx * BigCmp(x.man, y.man)

\* every comparison with NaN is false
f64_lt(x, y) == ~x.nan /\ ~y.nan /\ f64_cmp(x, y) < 0
f64_le(x, y) == ~x.nan /\ ~y.nan /\ f64_cmp(x, y) <= 0

\* f64::min, f64::max: the other operand when one is NaN
f64_min(x, y) == IF x.nan THEN y ELSE IF y.nan THEN x ELSE IF f64_cmp(x, y) <= 0 THEN x ELSE y
f64_max(x, y) == IF x.nan THEN y ELSE IF y.nan THEN x ELSE IF f64_cmp(x, y) >= 0 THEN x ELSE y

\* min_lat.min(lat) folded from f64::MAX and max_lat.max(lat) folded from
\* f64::MIN, over the non-empty set S of values other than NaN: the least
\* and the greatest of S
Lowest(S) == CHOOSE x \in S : \A y \in S : f64_le(x, y)
Highest(S) == CHOOSE x \in S : \A y \in S : f64_le(y, x)

RECURSIVE powi(_, _)
\* x^n, n >= 0, by repeated squaring; powi(x, 2) = 1 * (x * x) = x * x
powi(x, n) ==
    IF n = 0 THEN f64_from(1)
    ELSE IF n % 2 = 1 THEN f64_mul(x, powi(f64_mul(x, x), n \div 2))
    ELSE powi(f64_mul(x, x), n \div 2)

----------------------------------------------------------------------------
(* sin, cos and atan2.  std leaves their precision unspecified, and the
   platform's library does not return the f64 nearest to the real result:
   it returns the f64 below the real result or the one above it, and it
   is further off where it has reduced a large argument, by up to 2^-92
   on the arguments tried.  The result of each of the three is therefore
   a range, [least, most, nan]: the call returns any f64 from least to
   most, or NaN when nan is set.  A range is as wide as the two f64
   values that enclose the real result, wider by 2^-80 on either side
   where the argument is reduced, and a single value where the result is
   exact.  The real result is computed in fixed point, in units of
   2^-120. *)

\* the range that holds the values S: NaN alone when S has no number
Hull(S) ==
    IF \A v \in S : v.nan THEN [least |-> NaN, most |-> NaN, nan |-> TRUE]
    ELSE [least |-> Lowest({v \in S : ~v.nan}),
          most  |-> Highest({v \in S : ~v.nan}),
          nan   |-> \E v \in S : v.nan]

\* the ends of a range, and 0 and 1 where they lie between the ends: they
\* decide what a step makes of the range that is monotone below 0, from 0
\* to 1 and above 1
Ends(range) ==
    {range.least, range.most}
        \cup {v \in {Zero, f64_from(1)} : f64_lt(range.least, v) /\ f64_lt(v, range.most)}
        \cup (IF range.nan THEN {NaN} ELSE {})

FracBits == 120

\* pi in units of 2^-120
PiFixed == <<28787, 23558, 26152, 6296, 12429, 4276, 23202, 4639, 3>>

\* std::f64::consts::PI
PI == F64(1, <<11544, 10376, 2029, 201>>, -51)

FxMul(a, b) == BigShr(BigMul(a, b), FracBits)

\* |x| in fixed point, cut
ToFixed(x) ==
    LET s == x.exp + FracBits
    IN  IF s >= 0 THEN BigShl(x.man, s) ELSE BigShr(x.man, -s)

\* the f64 next to sign * M * 2^e: the one at it or towards zero, or away
\* from zero (up)
Beside(sign, M, e, up) ==
    LET d == IF BigBits(M) - Precision > MinExp - e
             THEN BigBits(M) - Precision ELSE MinExp - e
    IN  Round(sign,
              IF d <= 0 THEN M
              ELSE BigShl(BigAdd(BigShr(M, d),
                                 IF up /\ BigShl(BigShr(M, d), d) # M THEN <<1>> ELSE <<>>),
                          d),
              e, FALSE)

\* the range of sign * r * 2^e for a real r, A - slack < r < A + slack + 1:
\* from the f64 below (A - slack) 2^e, or the one beyond (slack - A) 2^e
\* on the other side of zero, to the f64 above (A + slack + 1) 2^e
Faithful(sign, A, slack, e) ==
    Hull({Beside(IF ~upper /\ BigCmp(A, slack) < 0 THEN -sign ELSE sign,
                 IF upper THEN BigAdd(BigAdd(A, slack), <<1>>)
                 ELSE IF BigCmp(A, slack) < 0 THEN BigSub(slack, A)
                 ELSE BigSub(A, slack),
                 e, upper \/ BigCmp(A, slack) < 0) : upper \in BOOLEAN})

\* 2 / pi in units of 2^-1230: the quarter turns of an angle are its
\* product with 2 / pi, to 180 bits after the point for every f64
TwoOverPi ==
    <<
      31795, 13781, 31867, 24717, 22540, 26690, 30933, 30243,
      32471, 30005, 21138, 28436, 7399, 23016, 24343, 32124,
      28337, 14995, 27181, 15551, 32154, 31281, 7028, 31073,
      13257, 6975, 8045, 5338, 11624, 30860, 32498, 13057, 30593,
      19455, 8184, 20598, 30692, 31837, 18501, 16019, 21710, 7361,
      4566, 627, 32249, 13730, 18178, 7475, 20769, 5981, 13813,
      20740, 7419, 2381, 12747, 17341, 1855, 26825, 27145, 4701,
      25, 28311, 9252, 3527, 28105, 25264, 24251, 18263, 31045,
      527, 17465, 13095, 22693, 24685, 13533, 9194, 7519, 20449,
      16722, 18888, 24795, 20860
    >>

RECURSIVE Alternating(_, _)
\* t - t x2 / ((n + 1) (n + 2)) + t x2^2 / ((n + 1) ... (n + 4)) - ... for
\* t = st.t and n = st.n, added to st.plus - st.minus: the terms decrease,
\* and they go to plus and to minus in turn
Alternating(x2, st) ==
    IF st.t = <<>> THEN BigSub(st.plus, st.minus)
    ELSE Alternating(x2,
             [t     |-> BigDivMod(FxMul(st.t, x2), <<(st.n + 1) * (st.n + 2)>>).q,
              n     |-> st.n + 2,
              add   |-> ~st.add,
              plus  |-> IF st.add THEN BigAdd(st.plus, st.t) ELSE st.plus,
              minus |-> IF st.add THEN st.minus ELSE BigAdd(st.minus, st.t)])

\* the series of cos x (n = 0) and of sin x (n = 1), 0 <= x <= pi/4
Series(x, n) ==
    Alternating(FxMul(x, x),
                [t |-> IF n = 0 THEN BigShl(<<1>>, FracBits) ELSE x,
                 n |-> n, add |-> TRUE, plus |-> <<>>, minus |-> <<>>])

\* the angle t = q 2^e < 2^-30 less t^3 / n, in units of 2^e, and one unit
\* less; q without its lowest bits (low of them) is t in fixed point
SmallAngle(q, low, n) ==
    BigSub(q, BigAdd(BigDivMod(FxMul(q, FxMul(BigShr(q, low), BigShr(q, low))), <<n>>).q,
                     <<1>>))

\* sin (sine) or cos of the angle, 0 <= angle <= pi/4 in units of 2^-180:
\* by the series, and the sine of an angle below 2^-30 as angle - angle^3 / 6;
\* within 2^-80 when the angle is what a reduction left (reduced)
Sector(angle, sine, sign, reduced) ==
    IF sine /\ Len(angle) <= 10
    THEN Faithful(sign, SmallAngle(angle, 60, 6),
                  IF reduced THEN BigShl(<<1>>, 100) ELSE <<>>, -180)
    ELSE Faithful(sign, Series(BigShr(angle, 60), IF sine THEN 1 ELSE 0),
                  IF reduced THEN BigShl(<<1>>, 40) ELSE <<>>, -FracBits)

\* sin x (sine) or cos x of x = sign * turns * pi/2, turns in units of
\* 2^-180: the quadrant is the whole part of turns, and the angle is that
\* of the part after the point or of what it lacks to 1, whichever is the
\* smaller; an argument of one quarter turn or more is reduced
Circular(turns, sign, sine) ==
    LET quadrant == Limb(turns, 13) % 4
        part     == Trim(SubSeq(turns, 1, IF Len(turns) < 12 THEN Len(turns) ELSE 12))
        near     == BigCmp(part, BigShl(<<1>>, 179)) <= 0
    IN  Sector(BigShr(BigMul(IF near THEN part ELSE BigSub(BigShl(<<1>>, 180), part),
                             BigShr(PiFixed, 1)), FracBits),
               ((quadrant % 2 = 0) = near) = sine,
               IF sine THEN (IF quadrant < 2 THEN sign ELSE -sign)
               ELSE (IF quadrant \in {0, 3} THEN 1 ELSE -1),
               Len(turns) > 12)

\* x.sin(): NaN for an infinite x; x > sin x > x (1 - 2^-62) for
\* 0 < x < 2^-30; beyond, the quarter turns of |x| = x.man 2^x.exp in units
\* of 2^-180 are the product of x.man and 2 / pi 2^1230 over
\* 2^(1230 - 180 - x.exp)
sin(x) ==
    IF x.nan \/ x.man = <<>> THEN Hull({x})
    ELSE IF x.exp > MaxExp THEN Hull({NaN})
    ELSE IF x.exp + Precision <= -30
    THEN Faithful(x.sign, BigSub(BigShl(x.man, 3), <<1>>), <<>>, x.exp - 3)
    ELSE Circular(BigShr(BigMul(x.man, TwoOverPi), 1050 - x.exp), x.sign, TRUE)

\* x.cos(): NaN for an infinite x; 1 > cos x > 1 - 2^-61 for 0 < |x| < 2^-30
cos(x) ==
    IF x.nan \/ x.exp > MaxExp THEN Hull({NaN})
    ELSE IF x.man = <<>> THEN Hull({f64_from(1)})
    ELSE IF x.exp + Precision <= -30
    THEN Faithful(1, BigSub(BigShl(<<1>>, 56), <<1>>), <<>>, -56)
    ELSE Circular(BigShr(BigMul(x.man, TwoOverPi), 1050 - x.exp), 1, FALSE)

RECURSIVE AtanFrom(_, _, _, _, _)
RECURSIVE AtanTurn(_, _, _, _, _, _)
RECURSIVE AtanStep(_, _, _, _, _, _, _)
(* The angle of (u, v) for 0 <= v <= u, u > 0: from the estimate th, the
   next is th + tan(angle - th), until the step from prev to th is below
   2^-45.  The result is the angle, or pi/2 less the angle (to.flip), and
   then pi less that (to.neg). *)
AtanFrom(v, u, to, prev, th) ==
    LET ge == BigCmp(prev, th) >= 0
        q1 == IF to.flip THEN BigSub(BigShr(PiFixed, 1), th) ELSE th
    IN  IF Len(BigSub(IF ge THEN prev ELSE th, IF ge THEN th ELSE prev)) <= 5
        THEN (IF to.neg THEN BigSub(PiFixed, q1) ELSE q1)
        ELSE AtanTurn(v, u, to, th, Series(th, 0), Series(th, 1))

\* c = cos th, s = sin th; tan(angle - th) = (v c - u s) / (u c + v s)
AtanTurn(v, u, to, th, c, s) ==
    AtanStep(v, u, to, th, FxMul(v, c), FxMul(u, s), BigAdd(FxMul(u, c), FxMul(v, s)))

AtanStep(v, u, to, th, p, n, den) ==
    AtanFrom(v, u, to, th,
             IF BigCmp(p, n) >= 0
             THEN BigAdd(th, BigDivMod(BigShl(BigSub(p, n), FracBits), den).q)
             ELSE BigSub(th, BigDivMod(BigShl(BigSub(n, p), FracBits), den).q))

\* the angle of (|x|, |y|) = (ax, ay) in the first quadrant, and pi less
\* the angle when x is negative
AtanFixed(ay, ax, neg) ==
    LET le == BigCmp(ay, ax) <= 0
        v  == IF le THEN ay ELSE ax
        u  == IF le THEN ax ELSE ay
    IN  AtanFrom(v, u, [flip |-> ~le, neg |-> neg], BigShl(<<1>>, FracBits + 1),
                 BigDivMod(BigShl(v, FracBits), u).q)

\* y.atan2(x): exact when y or x is zero or the one of them is infinite,
\* and the quotient less its cube over 3 when it is below 2^-30
atan2(y, x) ==
    IF y.nan \/ x.nan THEN Hull({NaN})
    ELSE IF y.man = <<>> \/ (x.exp > MaxExp /\ y.exp <= MaxExp)
    THEN Hull({IF x.sign > 0 THEN F64(y.sign, <<>>, 0) ELSE F64(y.sign, PI.man, PI.exp)})
    ELSE IF x.man = <<>> \/ (y.exp > MaxExp /\ x.exp <= MaxExp)
    THEN Hull({F64(y.sign, PI.man, PI.exp - 1)})
    ELSE IF x.sign > 0 /\ y.exp - x.exp < -31
    THEN Faithful(y.sign,
                  SmallAngle(BigDivMod(BigShl(y.man, FracBits), x.man).q, x.exp - y.exp, 3),
                  <<>>, y.exp - x.exp - FracBits)
    ELSE LET k == (IF y.exp > x.exp THEN y.exp ELSE x.exp) + Precision
         IN  Faithful(y.sign,
                      AtanFixed(ToFixed(F64(1, y.man, y.exp - k)),
                                ToFixed(F64(1, x.man, x.exp - k)),
                                x.sign < 0),
                      <<>>, -FracBits)

\* f64::to_radians: x * (PI / 180.0)
RadsPerDeg == f64_div(PI, f64_from(180))
to_radians(x) == f64_mul(x, RadsPerDeg)


----------------------------------------------------------------------------
(* Geometry: the program's f64 arithmetic, operation by operation.  The    *)
(* arguments are f64 values, and so are the results but for a distance,    *)
(* which is a range as the sines, cosines and arc tangent behind it are.   *)

R == 6371000                 \* Earth radius in metres
MetresPerDegree == 111000    \* radius_m / 111000.0
CoordScale == 10000

\* the f64 of a coordinate of u / 10000 degrees: the nearest f64, as the
\* compiler and str::parse give it for the decimal
Coord(u) == f64_div(f64_from(u), f64_from(CoordScale))

\* c = 2.0 * a.sqrt().atan2((1.0 - a).sqrt()), and R * c: c grows with a
\* from 0 to 1, and is NaN for a below 0 or above 1
Arc(a) ==
    Hull({f64_mul(f64_from(R), f64_mul(f64_from(2), angle)) :
             angle \in Ends(atan2(sqrt(a), sqrt(f64_sub(f64_from(1), a))))})

\* a = (delta_lat / 2.0).sin().powi(2)
\*       + lat1_rad.cos() * lat2_rad.cos() * (delta_lon / 2.0).sin().powi(2)
\* The square grows with the sine on either side of 0, and the sum and
\* the products grow or fall with each operand, so a ranges between its
\* values at the ends of the two sines and the two cosines.
Haversine(lat1_rad, lat2_rad, delta_lat, delta_lon) ==
    Hull(UNION {Ends(Arc(a)) :
        a \in Ends(Hull({f64_add(powi(s1, 2), f64_mul(f64_mul(c1, c2), powi(s2, 2))) :
                           s1 \in Ends(sin(f64_div(delta_lat, f64_from(2)))),
                           c1 \in Ends(cos(lat1_rad)),
                           c2 \in Ends(cos(lat2_rad)),
                           s2 \in Ends(sin(f64_div(delta_lon, f64_from(2))))}))})

\* metres between (lat1, lon1) and (lat2, lon2): the range
haversine_distance(lat1, lon1, lat2, lon2) ==
    Haversine(to_radians(lat1), to_radians(lat2),
              to_radians(f64_sub(lat2, lat1)), to_radians(f64_sub(lon2, lon1)))

\* Ray casting, the crossing test of the edge from vj to vi:
\*   ((lon_i > lon) != (lon_j > lon))
\*     && (lat < (lat_j - lat_i) * (lon - lon_i) / (lon_j - lon_i) + lat_i)
\* The first conjunct makes lon_j - lon_i non-zero.
Crosses(lat, lon, vi, vj) ==
    /\ f64_lt(lon, vi[2]) # f64_lt(lon, vj[2])
    /\ f64_lt(lat, f64_add(f64_div(f64_mul(f64_sub(vj[1], vi[1]), f64_sub(lon, vi[2])),
                                   f64_sub(vj[2], vi[2])),
                           vi[1]))

\* `inside` is toggled once per crossed edge (j, i), j = i - 1 cyclically
point_in_polygon(lat, lon, polygon) ==
    LET n == Len(polygon)
        crossed == {i \in 1..n :
                      Crosses(lat, lon, polygon[i],
                              polygon[IF i = 1 THEN n ELSE i - 1])}
    IN  Cardinality(crossed) % 2 = 1

\* AABB::from_corners: the corners are ordered component-wise
FromCorners(p1, p2) ==
    [lower |-> <<f64_min(p1[1], p2[1]), f64_min(p1[2], p2[2])>>,
     upper |-> <<f64_max(p1[1], p2[1]), f64_max(p1[2], p2[2])>>]

\* the envelope holds the point, borders included
Contains(envelope, coords) ==
    \A d \in 1..2 :
        f64_le(envelope.lower[d], coords[d]) /\ f64_le(coords[d], envelope.upper[d])

\* the square about (lat, lon) that query_geo_radius searches
RadiusEnvelope(lat, lon, radius_m) ==
    LET radius_deg == f64_div(radius_m, f64_from(MetresPerDegree))
    IN  FromCorners(<<f64_sub(lat, radius_deg), f64_sub(lon, radius_deg)>>,
                    <<f64_add(lat, radius_deg), f64_add(lon, radius_deg)>>)

\* the fold over the vertices from (f64::MAX, f64::MIN, f64::MAX, f64::MIN):
\* the least and the greatest latitude and longitude of a non-empty polygon
PolygonBounds(polygon) ==
    LET lats == {polygon[i][1] : i \in DOMAIN polygon}
        lons == {polygon[i][2] : i \in DOMAIN polygon}
    IN  FromCorners(<<Lowest(lats), Lowest(lons)>>, <<Highest(lats), Highest(lons)>>)

----------------------------------------------------------------------------
(* More inputs: spatial arguments *)

Centres == {SF, Oakland}
Radii == {-1, 0, 10000, 11119, 11120, 15000, 20000}
Boxes == { <<377000, -1225000, 378500, -1224000>>,
           <<379000, -1222000, 377000, -1225000>> }
Triangle == << <<377000, -1225000>>, <<379000, -1225000>>, <<377000, -1223000>> >>
Segment == << <<377000, -1225000>>, <<380000, -1222000>> >>
Polygons == {Triangle, Segment}
MultiGeo == {None, Some(<<SF[1], SF[2], 15000>>)}

----------------------------------------------------------------------------
(* The state holds a coordinate as its number of 1/10000 degree and a      *)
(* radius as its number of metres.  The f64 values of the coordinates and  *)
(* radii above, and the envelopes, distances and polygon tests on them,    *)
(* are tabulated: a table is evaluated once, and arguments outside it are  *)
(* computed by the same function.                                          *)

\* table[key], or value for a key outside the table
Tabulated(table, key, value) == IF key \in DOMAIN table THEN table[key] ELSE value

Points == {<<obs.lat, obs.lon>> : obs \in Observations}

DegreesTable ==
    [u \in UNION ({{p[1], p[2]} : p \in Points \cup Centres}
                    \cup {Range(box) : box \in Boxes}
                    \cup {UNION {{v[1], v[2]} : v \in Range(polygon)} :
                             polygon \in Polygons}) |-> Coord(u)]

Degrees(u) == Tabulated(DegreesTable, u, Coord(u))

\* (lat, lon) in f64
Position(coords) == <<Degrees(coords[1]), Degrees(coords[2])>>

EnvelopeTable ==
    [c \in Centres, r \in Radii |->
        RadiusEnvelope(Degrees(c[1]), Degrees(c[2]), f64_from(r))]

EnvelopeOfRadius(lat, lon, radius_m) ==
    Tabulated(EnvelopeTable, <<<<lat, lon>>, radius_m>>,
              RadiusEnvelope(Degrees(lat), Degrees(lon), f64_from(radius_m)))

DistanceTable ==
    [c \in Centres, p \in Points |->
        haversine_distance(Degrees(c[1]), Degrees(c[2]), Degrees(p[1]), Degrees(p[2]))]

Distance(lat, lon, coords) ==
    Tabulated(DistanceTable, <<<<lat, lon>>, coords>>,
              haversine_distance(Degrees(lat), Degrees(lon),
                                 Degrees(coords[1]), Degrees(coords[2])))

\* the vertices in f64
Vertices(polygon) == [i \in 1..Len(polygon) |-> Position(polygon[i])]

BoundsTable ==
    [polygon \in {q \in Polygons : Len(q) > 0} |-> PolygonBounds(Vertices(polygon))]

BoundsOf(polygon) ==
    Tabulated(BoundsTable, polygon, PolygonBounds(Vertices(polygon)))

InsideTable ==
    [polygon \in Polygons, p \in Points |->
        point_in_polygon(Degrees(p[1]), Degrees(p[2]), Vertices(polygon))]

InPolygon(coords, polygon) ==
    Tabulated(InsideTable, <<polygon, coords>>,
              point_in_polygon(Degrees(coords[1]), Degrees(coords[2]), Vertices(polygon)))

----------------------------------------------------------------------------
(* Spatial index *)

GeoPoint(lat, lon, id) == [coords |-> <<lat, lon>>, record_id |-> id]

Reverse(s) == [i \in 1..Len(s) |-> s[Len(s) + 1 - i]]

\* RTree::locate_in_envelope: the entries inside the envelope (borders
\* included).  The selection iterator pops the root's children off a
\* stack, so the latest entry comes first.
LocateAll(envelope) == Reverse(geo_index)

LocateInEnvelope(envelope) ==
    SelectSeq(Reverse(geo_index), LAMBDA p : Contains(envelope, Position(p.coords)))

RefsOfPoints(points) ==
    Resolve([i \in 1..Len(points) |-> points[i].record_id])

\* .filter(|point| dist <= radius_m) on the points found: the points that
\* pass, for every value of each distance in its range; dist <= radius_m
\* falls as dist grows and is false for NaN, so the ends of the range decide
FilterByDistance(found, lat, lon, radius_m) ==
    {[j \in 1..Len(kept) |-> found[kept[j]]] :
        kept \in {SelectSeq([i \in 1..Len(found) |-> i], LAMBDA i : keep[i]) :
                    keep \in {k \in [1..Len(found) -> BOOLEAN] :
                        \A i \in 1..Len(found) :
                            \E dist \in Ends(Distance(lat, lon, found[i].coords)) :
                                k[i] = f64_le(dist, f64_from(radius_m))}}}

\* the results the call can return
query_geo_radius(lat, lon, radius_m) ==
    {Ok(RefsOfPoints(points)) :
        points \in FilterByDistance(
                      LocateInEnvelope(EnvelopeOfRadius(lat, lon, radius_m)),
                      lat, lon, radius_m)}

query_geo_bbox(min_lat, min_lon, max_lat, max_lon) ==
    Ok(RefsOfPoints(LocateInEnvelope(
        FromCorners(Position(<<min_lat, min_lon>>), Position(<<max_lat, max_lon>>)))))

query_geo_polygon(polygon) ==
    IF Len(polygon) < 3 THEN Ok(<<>>)
    ELSE Ok(RefsOfPoints(
             SelectSeq(LocateInEnvelope(BoundsOf(polygon)),
                       LAMBDA p : InPolygon(p.coords, polygon))))

----------------------------------------------------------------------------
(* Multi-dimensional query *)

\* result_ids.retain(|id| ids.contains(id))
Retain(result_ids, ids) == SelectSeq(result_ids, LAMBDA id : id \in Range(ids))

\* self.records.iter().position(|r| std::ptr::eq(*obs, r)) for each result
PositionsOf(refs) == SelectSeq(refs, LAMBDA ref : ref < Len(records))

\* the results the call can return
query_multi(mac, rssi_range, time_range, geo_center) ==
    LET start == IF mac.some THEN Bucket(mac_index, mac.value)
                 ELSE [i \in 1..Len(records) |-> i - 1]
        rssi  == IF rssi_range.some
                 THEN BTreeRange(rssi_index, rssi_range.value[1],
                                 rssi_range.value[2], TRUE, "i8")
                 ELSE Ok(<<>>)
        time  == IF time_range.some
                 THEN BTreeRange(time_index, time_range.value[1],
                                 time_range.value[2], TRUE, "i64")
                 ELSE Ok(<<>>)
        by_rssi == IF rssi_range.some THEN Retain(start, rssi.value) ELSE start
        by_time == IF time_range.some THEN Retain(by_rssi, time.value) ELSE by_rssi
    IN  IF rssi.panic \/ time.panic THEN {Panic}
        ELSE IF geo_center.some
        THEN {Ok(Resolve(Retain(by_time, PositionsOf(geo.value)))) :
                 geo \in query_geo_radius(geo_center.value[1], geo_center.value[2],
                                          geo_center.value[3])}
        ELSE {Ok(Resolve(by_time))}

----------------------------------------------------------------------------
(* The state machine *)

Init ==
    /\ records = <<>>
    /\ mac_index = <<>>
    /\ rssi_index = <<>>
    /\ time_index = <<>>
    /\ geo_index = <<>>
    /\ overflow_checks \in BOOLEAN
    /\ inserted = <<>>
    /\ last = [op |-> "new", args |-> <<>>, result |-> Ok(<<>>)]

insert(obs) ==
    LET record_id == Len(records)
    IN  /\ Len(records) < MaxRecords
        /\ records' = Append(records, obs)
        /\ mac_index' = EntryPush(mac_index, obs.mac, record_id)
        /\ rssi_index' = EntryPush(rssi_index, obs.rssi, record_id)
        /\ time_index' = EntryPush(time_index, obs.timestamp, record_id)
        /\ geo_index' = Append(geo_index, GeoPoint(obs.lat, obs.lon, record_id))
        /\ inserted' = Append(inserted, obs)
        /\ last' = [op |-> "insert", args |-> <<obs>>, result |-> Ok(record_id)]
        /\ UNCHANGED overflow_checks

\* A method taking &self: the call and its result are recorded, the cube
\* is left as it is.
Query(op, args, result) ==
    /\ last' = [op |-> op, args |-> args, result |-> result]
    /\ UNCHANGED <<cube, overflow_checks, inserted>>

Call_get(record_id) == Query("get", <<record_id>>, Ok(get(record_id)))

Call_len == Query("len", <<>>, Ok(len))

Call_is_empty == Query("is_empty", <<>>, Ok(is_empty))

Call_query_mac_entry(mac) ==
    /\ last' = [op |-> "query_mac", args |-> <<mac>>,
                result |-> Returned(query_mac(mac))]
    /\ mac_index' = IF mac \in DOMAIN mac_index THEN mac_index
                    ELSE (mac :> <<>>) @@ mac_index
    /\ UNCHANGED <<records, rssi_index, time_index, geo_index,
                   overflow_checks, inserted>>

Call_query_mac(mac) == Query("query_mac", <<mac>>, Returned(query_mac(mac)))

Call_get_all_macs(keys) == Query("get_all_macs", <<>>, Ok(get_all_macs(keys)))

Call_query_rssi(rssi) == Query("query_rssi", <<rssi>>, Returned(query_rssi(rssi)))

Call_query_rssi_range(min, max) ==
    Query("query_rssi_range", <<min, max>>, Returned(query_rssi_range(min, max)))

Call_query_rssi_gt(threshold) ==
    Query("query_rssi_gt", <<threshold>>, Returned(query_rssi_gt(threshold)))

Call_query_rssi_gte(threshold) ==
    Query("query_rssi_gte", <<threshold>>, Returned(query_rssi_gte(threshold)))

Call_query_rssi_lt(threshold) ==
    Query("query_rssi_lt", <<threshold>>, Returned(query_rssi_lt(threshold)))

Call_query_rssi_lte(threshold) ==
    Query("query_rssi_lte", <<threshold>>, Returned(query_rssi_lte(threshold)))

Call_query_timestamp(timestamp) ==
    Query("query_timestamp", <<timestamp>>, Returned(query_timestamp(timestamp)))

Call_query_time_range(start, end) ==
    Query("query_time_range", <<start, end>>, Returned(query_time_range(start, end)))

Call_query_time_after(timestamp) ==
    Query("query_time_after", <<timestamp>>, Returned(query_time_after(timestamp)))

Call_query_time_before(timestamp) ==
    Query("query_time_before", <<timestamp>>, Returned(query_time_before(timestamp)))

Call_query_geo_radius(lat, lon, radius_m) ==
    \E result \in query_geo_radius(lat, lon, radius_m) :
        Query("query_geo_radius", <<lat, lon, radius_m>>, Returned(result))

Call_query_geo_bbox(box) ==
    Query("query_geo_bbox", box,
          Returned(query_geo_bbox(box[1], box[2], box[3], box[4])))

Call_query_geo_polygon(polygon) ==
    Query("query_geo_polygon", <<polygon>>, Returned(query_geo_polygon(polygon)))

Call_query_multi(mac, rssi_range, time_range, geo_center) ==
    \E result \in query_multi(mac, rssi_range, time_range, geo_center) :
        Query("query_multi", <<mac, rssi_range, time_range, geo_center>>,
              Returned(result))

Next ==
    \/ \E obs \in Observations : insert(obs)
    \/ \E id \in IdArgs : Call_get(id)
    \/ Call_len
    \/ Call_is_empty
    \/ \E mac \in MacArgs : Call_query_mac(mac)
    \/ \E keys \in KeyOrders(mac_index) : Call_get_all_macs(keys)
    \/ \E rssi \in RssiArgs : Call_query_rssi(rssi)
    \/ \E r \in RssiRanges : Call_query_rssi_range(r[1], r[2])
    \/ \E t \in RssiArgs : Call_query_rssi_gt(t)
    \/ \E t \in RssiArgs : Call_query_rssi_gte(t)
    \/ \E t \in RssiArgs : Call_query_rssi_lt(t)
    \/ \E t \in RssiArgs : Call_query_rssi_lte(t)
    \/ \E t \in TimeArgs : Call_query_timestamp(t)
    \/ \E r \in TimeRanges : Call_query_time_range(r[1], r[2])
    \/ \E t \in TimeArgs : Call_query_time_after(t)
    \/ \E t \in TimeArgs : Call_query_time_before(t)
    \/ \E c \in Centres, r \in Radii : Call_query_geo_radius(c[1], c[2], r)
    \/ \E box \in Boxes : Call_query_geo_bbox(box)
    \/ \E polygon \in Polygons : Call_query_geo_polygon(polygon)
    \/ \E m \in MultiMacs, r \in MultiRssi, t \in MultiTime, g \in MultiGeo :
           Call_query_multi(m, r, t, g)

Spec == Init /\ [][Next]_vars

----------------------------------------------------------------------------
(* Properties *)

IsQuery(call) == call.op \notin {"new", "insert"}

\* The inserted observations with identifiers in `ids`, by ascending
\* identifier.
InsertedAt(ids) ==
    LET order == Ascending(ids, "usize")
    IN  [i \in 1..Len(order) |-> inserted[order[i] + 1]]

Ids == 0..(Len(inserted) - 1)

\* The inserted observations with lo <= rssi <= hi (lo, hi any integers),
\* by ascending rssi and, for equal rssi, by insertion order.
InsertedByRssi(lo, hi) ==
    LET ids == {id \in Ids : lo <= inserted[id + 1].rssi
                               /\ inserted[id + 1].rssi <= hi}
        before(a, b) == \/ inserted[a + 1].rssi < inserted[b + 1].rssi
                        \/ /\ inserted[a + 1].rssi = inserted[b + 1].rssi
                           /\ a <= b
        order == [i \in 1..Cardinality(ids) |->
                    CHOOSE id \in ids :
                        Cardinality({j \in ids : before(j, id)}) = i]
    IN  [i \in 1..Len(order) |-> inserted[order[i] + 1]]

\* C1: the k-th insert returns identifier k, len() is the number of inserts
\* made, and get(k) returns the observation given to the k-th insert, absent
\* for k >= len().
C1_InsertAssignsIdsAndGetReturnsRecord ==
    /\ last.op = "insert" =>
          /\ last.result = Ok(Len(inserted) - 1)
          /\ inserted[Len(inserted)] = last.args[1]
    /\ last.op = "len" => last.result = Ok(Len(inserted))
    /\ last.op = "get" =>
          last.result = Ok(IF last.args[1] < Len(inserted)
                           THEN Some(inserted[last.args[1] + 1])
                           ELSE None)

C1_Witness ==
    /\ last.op = "get"
    /\ last.args[1] = 0
    /\ Len(inserted) = 2
    /\ inserted[1] # inserted[2]
    /\ last.result = Ok(Some(inserted[1]))

\* The places <<key, position>> of a flat index that hold identifier id.
Places(index, id) ==
    {p \in UNION {{<<k, i>> : i \in DOMAIN index[k]} : k \in DOMAIN index} :
        index[p[1]][p[2]] = id}

Held(index) == UNION {Range(index[k]) : k \in DOMAIN index}

\* C2: every identifier below len() is held once by each flat index, in the
\* bucket of its record's own key, and once by the spatial index with its
\* record's coordinates; no index holds an identifier >= len().
C2_IndicesHoldEachIdOnce ==
    /\ \A id \in 0..(Len(records) - 1) :
          LET obs == records[id + 1]
          IN  /\ \E i \in DOMAIN mac_index[obs.mac] :
                    Places(mac_index, id) = {<<obs.mac, i>>}
              /\ \E i \in DOMAIN rssi_index[obs.rssi] :
                    Places(rssi_index, id) = {<<obs.rssi, i>>}
              /\ \E i \in DOMAIN time_index[obs.timestamp] :
                    Places(time_index, id) = {<<obs.timestamp, i>>}
              /\ \E i \in DOMAIN geo_index :
                    /\ {j \in DOMAIN geo_index : geo_index[j].record_id = id} = {i}
                    /\ geo_index[i].coords = <<obs.lat, obs.lon>>
    /\ \A id \in Held(mac_index) \cup Held(rssi_index) \cup Held(time_index)
                 \cup {geo_index[j].record_id : j \in DOMAIN geo_index} :
          id < Len(records)

C2_Witness ==
    /\ Len(records) = 2
    /\ records[1] # records[2]
    /\ mac_index[records[1].mac] = <<0, 1>>
    /\ rssi_index[records[1].rssi] = <<0, 1>>
    /\ Cardinality(DOMAIN time_index) = 2

\* What query_multi is to return: the records that pass every given filter,
\* by ascending identifier, for each result the radius query of the
\* spatial filter can return.
MultiExpected(mac, rssi_range, time_range, geo_center) ==
    {Ok(InsertedAt({id \in Ids :
        LET obs == inserted[id + 1]
        IN  /\ mac.some => obs.mac = mac.value
            /\ rssi_range.some =>
                  /\ rssi_range.value[1] <= obs.rssi
                  /\ obs.rssi <= rssi_range.value[2]
            /\ time_range.some =>
                  /\ LeqI64(time_range.value[1], obs.timestamp)
                  /\ LeqI64(obs.timestamp, time_range.value[2])
            /\ geo_center.some => id \in Range(geo.value)})) :
        geo \in IF geo_center.some
                THEN query_geo_radius(geo_center.value[1], geo_center.value[2],
                                      geo_center.value[3])
                ELSE {Ok(<<>>)}}

\* C3: query_multi returns exactly the records that satisfy every given
\* filter, each once, by ascending identifier; all of them when no filter
\* is given.
C3_QueryMultiReturnsConjunction ==
    last.op = "query_multi" =>
        last.result \in MultiExpected(last.args[1], last.args[2],
                                      last.args[3], last.args[4])

\* query_multi on ranges with min <= max only: the conjunction of the
\* filters, as C3 states it.
QueryMultiOnOrderedRanges ==
    (/\ last.op = "query_multi"
     /\ last.args[2].some => last.args[2].value[1] <= last.args[2].value[2]
     /\ last.args[3].some => LeqI64(last.args[3].value[1], last.args[3].value[2])) =>
        last.result \in MultiExpected(last.args[1], last.args[2],
                                      last.args[3], last.args[4])

\* C4: query_mac(addr) returns exactly the inserted records whose mac is
\* addr, each once, in insertion order; nothing for an address never
\* inserted.
C4_QueryMacReturnsBucketInOrder ==
    last.op = "query_mac" =>
        last.result = Ok(SelectSeq(inserted, LAMBDA obs : obs.mac = last.args[1]))

C4_Witness ==
    /\ last.op = "query_mac"
    /\ Len(last.result.value) = 2
    /\ last.result.value[1] # last.result.value[2]
    /\ last.result.value = inserted

\* C5: for min <= max query_rssi_range(min, max) returns exactly the records
\* with min <= rssi <= max, by ascending rssi and insertion order within one
\* rssi; query_rssi_gte(t) the records with rssi >= t in the same order.
C5_RssiRangeInclusiveOrdered ==
    /\ (last.op = "query_rssi_range" /\ last.args[1] <= last.args[2]) =>
          last.result = Ok(InsertedByRssi(last.args[1], last.args[2]))
    /\ last.op = "query_rssi_gte" =>
          last.result = Ok(InsertedByRssi(last.args[1], I8_MAX))

C5_Witness ==
    /\ last.op = "query_rssi_range"
    /\ last.args = <<-70, I8_MAX>>
    /\ Len(inserted) = 2
    /\ inserted[1].rssi = I8_MAX
    /\ inserted[2].rssi = -70
    /\ last.result = Ok(<<inserted[2], inserted[1]>>)

\* C6: query_rssi_gt(threshold) returns exactly the records with
\* rssi > threshold, for every i8 threshold; nothing, and no fault, for 127.
C6_RssiGtStrict ==
    last.op = "query_rssi_gt" =>
        last.result = Ok(InsertedByRssi(last.args[1] + 1, I8_MAX))

\* C7: none of get, query_mac, query_rssi, query_timestamp,
\* query_rssi_range, query_time_range and query_multi faults, whatever its
\* arguments: get beyond len() is absent, an exact query for a key no record
\* carries is empty, and a range query returns a sequence also when
\* min > max.
C7_NoQueryFaults ==
    last.op \in {"get", "query_mac", "query_rssi", "query_timestamp",
                 "query_rssi_range", "query_time_range", "query_multi"} =>
        /\ ~last.result.panic
        /\ (last.op = "get" /\ last.args[1] >= Len(inserted)) =>
              last.result.value = None
        /\ (/\ last.op = "query_mac"
            /\ \A i \in DOMAIN inserted : inserted[i].mac # last.args[1]) =>
              last.result.value = <<>>
        /\ (/\ last.op = "query_rssi"
            /\ \A i \in DOMAIN inserted : inserted[i].rssi # last.args[1]) =>
              last.result.value = <<>>
        /\ (/\ last.op = "query_timestamp"
            /\ \A i \in DOMAIN inserted : inserted[i].timestamp # last.args[1]) =>
              last.result.value = <<>>

\* byte-wise lexicographic order, decided at the first byte that differs
LexBefore(a, b) ==
    /\ a # b
    /\ LET first == CHOOSE k \in 1..6 : a[k] # b[k] /\ \A j \in 1..(k - 1) : a[j] = b[j]
       IN  a[first] < b[first]

\* C8: get_all_macs() returns every distinct inserted address once, and no
\* other, in ascending lexicographic byte order.
C8_AllMacsSortedDistinct ==
    last.op = "get_all_macs" =>
        LET macs == last.result.value
        IN  /\ ~last.result.panic
            /\ Range(macs) = {inserted[i].mac : i \in DOMAIN inserted}
            /\ \A i, j \in DOMAIN macs : i < j => LexBefore(macs[i], macs[j])

C8_Witness ==
    /\ last.op = "get_all_macs"
    /\ Len(inserted) = 2
    /\ inserted[1].mac = MacC
    /\ inserted[2].mac = MacB
    /\ last.result = Ok(<<MacB, MacC>>)

\* C9: a query leaves the record store and the four indices unchanged, and
\* a query repeated with no insert in between returns the same result.
C9_QueriesLeaveCubeUnchanged ==
    [][IsQuery(last') =>
          /\ cube' = cube
          /\ (last.op = last'.op /\ last.args = last'.args) =>
                last'.result = last.result]_vars

C9_Witness ==
    /\ last.op = "query_mac"
    /\ last.args[1] = MacUnknown
    /\ Len(records) = 2
    /\ last.result = Ok(<<>>)

Abs(x) == IF x < 0 THEN -x ELSE x

\* |u| / per of a half turn, in radians and in units of 2^-120: u / 10000
\* degrees for per = 1800000, and half of that for per = 3600000
Radians(u, per) == BigDivMod(BigMul(BigOf(Abs(u)), PiFixed), BigOf(per)).q

\* sin^2 x, 0 <= x <= pi/4 in units of 2^-120
SinSquared(x) == FxMul(Series(x, 1), Series(x, 1))

\* the haversine of the angle between two points of the sphere, in units
\* of 2^-120, from their coordinates in 1/10000 degree (latitudes below 45
\* degrees, half differences below 45 degrees):
\* sin^2(dlat / 2) + cos lat1 cos lat2 sin^2(dlon / 2)
HaversineOfAngle(c, p) ==
    BigAdd(SinSquared(Radians(p[1] - c[1], 3600000)),
           FxMul(FxMul(Series(Radians(c[1], 1800000), 0), Series(Radians(p[1], 1800000), 0)),
                 SinSquared(Radians(p[2] - c[2], 3600000))))

\* the great circle from c to p on the sphere of radius R is radius_m
\* metres long at most: the haversine of its angle is at most that of
\* radius_m / R, which is sin^2(radius_m / 2 R)
WithinMetres(c, p, radius_m) ==
    /\ radius_m >= 0
    /\ BigCmp(HaversineOfAngle(c, p),
              SinSquared(BigDivMod(BigShl(BigOf(radius_m), FracBits), BigOf(2 * R)).q)) <= 0

\* C10: for a fixed centre the result of query_geo_radius grows with the
\* radius, whatever the library returns for the sines, the cosines and the
\* arc tangent; and every record returned lies in the square of half-width
\* radius_m / 111000 degrees about the centre and at a haversine distance
\* of radius_m at most from it.  The square and the distance are those of
\* the decimal coordinates, worked out in whole numbers and in fixed point
\* and not by the f64 arithmetic of the query.
C10_GeoRadiusMonotoneAndBounded ==
    last.op = "query_geo_radius" =>
        LET lat == last.args[1]
            lon == last.args[2]
            radius_m == last.args[3]
            found == last.result.value
        IN  /\ ~last.result.panic
            /\ \A i \in DOMAIN found :
                  /\ Abs(found[i].lat - lat) * 111000 <= radius_m * 10000
                  /\ Abs(found[i].lon - lon) * 111000 <= radius_m * 10000
                  /\ WithinMetres(<<lat, lon>>, <<found[i].lat, found[i].lon>>, radius_m)
            /\ \A r2 \in Radii :
                  radius_m <= r2 =>
                      \A wider \in query_geo_radius(lat, lon, r2) :
                          Range(found) \subseteq Range(Deref(wider.value))

C10_Witness ==
    /\ last.op = "query_geo_radius"
    /\ last.args = <<SF[1], SF[2], 15000>>
    /\ Len(inserted) = 2
    /\ <<inserted[1].lat, inserted[1].lon>> = Oakland
    /\ <<inserted[2].lat, inserted[2].lon>> = North
    /\ last.result = Ok(<<inserted[2]>>)


\* The identifiers of the inserted observations whose timestamp satisfies
\* the comparison with t: "<", "=" or ">".
IdsByTime(cmp, t) ==
    {id \in Ids :
        LET ts == inserted[id + 1].timestamp
        IN  CASE cmp = "<" -> LtI64(ts, t)
              [] cmp = ">" -> LtI64(t, ts)
              [] OTHER -> ts = t}

\* C11: for every i64 timestamp t, i64::MIN and i64::MAX included,
\* query_time_before(t), query_timestamp(t) and query_time_after(t) are
\* pairwise disjoint and together hold every inserted record once:
\* query_time_after(t) exactly the records with timestamp > t and
\* query_time_before(t) exactly those with timestamp < t.
C11_TimeQueriesPartitionRecords ==
    /\ last.op = "query_time_before" =>
          /\ last.result = Returned(query_time_before(last.args[1]))
          /\ Range(query_time_before(last.args[1]).value)
                = IdsByTime("<", last.args[1])
    /\ last.op = "query_timestamp" =>
          /\ last.result = Returned(query_timestamp(last.args[1]))
          /\ Range(query_timestamp(last.args[1]).value)
                = IdsByTime("=", last.args[1])
    /\ last.op = "query_time_after" =>
          LET t == last.args[1]
              before == query_time_before(t)
              exact == query_timestamp(t)
              after == query_time_after(t)
          IN  /\ ~last.result.panic
              /\ last.result = Returned(after)
              /\ Range(after.value) = IdsByTime(">", t)
              /\ Range(before.value) \cap Range(exact.value) = {}
              /\ Range(before.value) \cap Range(after.value) = {}
              /\ Range(exact.value) \cap Range(after.value) = {}
              /\ Len(before.value) + Len(exact.value) + Len(after.value)
                    = Len(inserted)

\* The same partition for every timestamp below i64::MAX.
TimeQueriesPartitionBelowMax ==
    (last.op \in {"query_time_before", "query_timestamp", "query_time_after"}
        /\ last.args[1] # I64_MAX) =>
        LET t == last.args[1]
            before == query_time_before(t)
            exact == query_timestamp(t)
            after == query_time_after(t)
        IN  /\ ~before.panic /\ ~exact.panic /\ ~after.panic
            /\ Range(before.value) = IdsByTime("<", t)
            /\ Range(exact.value) = IdsByTime("=", t)
            /\ Range(after.value) = IdsByTime(">", t)
            /\ Len(before.value) + Len(exact.value) + Len(after.value)
                  = Len(inserted)

====
